---- MODULE Spec2Model ----
(***************************************************************************)
(* Arrow Protocol client engine (ArrowClientContext) of arrow-client:      *)
(* the handshake state machine, the pending-ACK tracker, the outbound      *)
(* queue, the periodic time_event and the outbound poll, together with the *)
(* connection driver that runs the engine to completion.                   *)
(*                                                                         *)
(* Time is counted in whole seconds of the clock read by                   *)
(* time::precise_time_s(); the periodic task calls time_event once per     *)
(* second.                                                                 *)
(***************************************************************************)
EXTENDS Integers, Sequences, FiniteSets, TLC

VARIABLES
    ctx,      \* the ArrowClientContext (all of its mutable fields)
    now,      \* the clock, in seconds since construction
    woken,    \* the task consuming the engine is scheduled to poll it
    driver,   \* the state of connect(): running, ok (with the redirect), err
    op,       \* the last operation performed on the engine
    res,      \* what that operation returned
    frame,    \* the frame of that operation: handed to start_send, or yielded by poll
    outstanding, \* ids of the unconfirmed messages enqueued and not yet ACKed
    pings,    \* number of PING messages enqueued by time_event so far
    checks,   \* number of update checks performed by time_event so far
    est_at    \* the clock when the engine became Established (-1 before)
              \* (pings, checks and est_at are kept by SpecPeriodic only)

vars == <<ctx, now, woken, driver, op, res, frame, outstanding, pings, checks, est_at>>

----------------------------------------------------------------------------
(* Program constants *)

ACK_TIMEOUT == 20
PING_PERIOD == 60
UPDATE_CHECK_PERIOD == 5
TICK_PERIOD == 1

ACK_NO_ERROR == 0
ACK_UNSUPPORTED_PROTOCOL_VERSION == 1
ACK_UNAUTHORIZED == 2
ACK_CONNECTION_ERROR == 3
ACK_UNSUPPORTED_METHOD == 4
\* 0xffffffff: the u32 is written as the 32-bit two's complement value
ACK_INTERNAL_SERVER_ERROR == -1

CMSG_ACK == 0
CMSG_PING == 1
CMSG_REGISTER == 2
CMSG_REDIRECT == 3
CMSG_UPDATE == 4
CMSG_HUP == 5
CMSG_RESET_SVC_TABLE == 6
CMSG_SCAN_NETWORK == 7
CMSG_GET_STATUS == 8
CMSG_STATUS == 9
CMSG_GET_SCAN_REPORT == 10
CMSG_SCAN_REPORT == 11

STATUS_FLAG_SCAN == 1
U16 == 65536

(* Bounds of the model *)

MaxTime == 7
MaxSessTime == 22
MaxLongTime == 123
MaxLongQueue == 9
MaxQueue == 2
MaxReady == 1

----------------------------------------------------------------------------
(* Values *)

Handshake == "Handshake"
Established == "Established"

None == [some |-> FALSE, val |-> ""]
Some(s) == [some |-> TRUE, val |-> s]

\* The result of an operation: Ok or Err(kind, msg) for start_send; for poll
\* Err, End (end of stream), Frame (a frame is yielded) or NotReady. cmd is
\* the command the operation sent on the command channel ("" when none).
OkRes == [tag |-> "Ok", kind |-> "", msg |-> "", cmd |-> ""]
ErrRes(kind, msg) == [tag |-> "Err", kind |-> kind, msg |-> msg, cmd |-> ""]
PollRes(tag) == [tag |-> tag, kind |-> "", msg |-> "", cmd |-> ""]

\* An ArrowMessage: a control message (service 0) with its header and body,
\* or a service frame (service # 0, opaque payload).
Msg(service, mtype, id, body, target) ==
    [service |-> service, hdr |-> TRUE, msg_type |-> mtype, msg_id |-> id,
     body |-> body, target |-> target]

NoFrame == Msg(0, U16, 0, <<>>, "none")

\* A variant in which a type code that is not known reads as PING.
message_type_unknown_as_ping(msg_type) ==
    CASE msg_type = CMSG_ACK             -> "ACK"
      [] msg_type = CMSG_REGISTER        -> "REGISTER"
      [] msg_type = CMSG_REDIRECT        -> "REDIRECT"
      [] msg_type = CMSG_UPDATE          -> "UPDATE"
      [] msg_type = CMSG_HUP             -> "HUP"
      [] msg_type = CMSG_RESET_SVC_TABLE -> "RESET_SVC_TABLE"
      [] msg_type = CMSG_SCAN_NETWORK    -> "SCAN_NETWORK"
      [] msg_type = CMSG_GET_STATUS      -> "GET_STATUS"
      [] msg_type = CMSG_STATUS          -> "STATUS"
      [] msg_type = CMSG_GET_SCAN_REPORT -> "GET_SCAN_REPORT"
      [] msg_type = CMSG_SCAN_REPORT     -> "SCAN_REPORT"
      [] OTHER                           -> "PING"

\* ControlMessageHeader::message_type
message_type(msg_type) ==
    CASE msg_type = CMSG_ACK             -> "ACK"
      [] msg_type = CMSG_PING            -> "PING"
      [] msg_type = CMSG_REGISTER        -> "REGISTER"
      [] msg_type = CMSG_REDIRECT        -> "REDIRECT"
      [] msg_type = CMSG_UPDATE          -> "UPDATE"
      [] msg_type = CMSG_HUP             -> "HUP"
      [] msg_type = CMSG_RESET_SVC_TABLE -> "RESET_SVC_TABLE"
      [] msg_type = CMSG_SCAN_NETWORK    -> "SCAN_NETWORK"
      [] msg_type = CMSG_GET_STATUS      -> "GET_STATUS"
      [] msg_type = CMSG_STATUS          -> "STATUS"
      [] msg_type = CMSG_GET_SCAN_REPORT -> "GET_SCAN_REPORT"
      [] msg_type = CMSG_SCAN_REPORT     -> "SCAN_REPORT"
      [] OTHER                           -> "UNKNOWN"

----------------------------------------------------------------------------
(* ControlMessageFactory: the id counter and the constructors *)

FirstMsgId == 1

next_id(c) == c.cmsg_factory
bump_id(c) == [c EXCEPT !.cmsg_factory = (c.cmsg_factory + 1) % U16]

factory_register(id) == Msg(0, CMSG_REGISTER, id, <<>>, "")
factory_update(id)   == Msg(0, CMSG_UPDATE, id, <<>>, "")
factory_ping(id)     == Msg(0, CMSG_PING, id, <<>>, "")
factory_ack(id, err) == Msg(0, CMSG_ACK, id, <<err>>, "")
factory_status(id, flags, active) == Msg(0, CMSG_STATUS, id, <<flags, active>>, "")
factory_scan_report(id) == Msg(0, CMSG_SCAN_REPORT, id, <<>>, "")

----------------------------------------------------------------------------
(* SessionManager *)

SessionIds == {1}

sessions_new == [open |-> {}, ready |-> <<>>]
sessions_send(s, msg) == [s EXCEPT !.open = @ \cup {msg.service}]
sessions_close(s, sid) ==
    [open  |-> s.open \ {sid},
     ready |-> SelectSeq(s.ready, LAMBDA m : m.service # sid)]
sessions_len(s) == Cardinality(s.open)

----------------------------------------------------------------------------
(* ExpectedAck and the engine's predicates *)

ExpectedAck_new(message_id, t) == [timestamp |-> t, message_id |-> message_id]

ExpectedAck_timeout(ea, t) == (ea.timestamp + ACK_TIMEOUT) < t

is_closed(c) == c.redirect.some

ack_timeout(c, t) ==
    IF c.expected_acks # <<>>
    THEN ExpectedAck_timeout(Head(c.expected_acks), t)
    ELSE FALSE

----------------------------------------------------------------------------
(* Outbound control messages *)

\* A variant that inserts the message at the front of the queue.
send_control_message_front(c, msg) ==
    [c EXCEPT !.messages = <<msg>> \o @]

send_control_message(c, msg) ==
    [c EXCEPT !.messages = Append(@, msg)]

\* A variant that enqueues the message and records no expected ACK.
send_unconfirmed_control_message_untracked(c, msg, t) ==
    send_control_message(c, msg)

\* A variant that puts the expected ACK at the head of the tracker.
send_unconfirmed_control_message_push_front(c, msg, t) ==
    send_control_message(
        [c EXCEPT !.expected_acks = <<ExpectedAck_new(msg.msg_id, t)>> \o @],
        msg)

send_unconfirmed_control_message(c, msg, t) ==
    send_control_message(
        [c EXCEPT !.expected_acks = Append(@, ExpectedAck_new(msg.msg_id, t))],
        msg)

send_register_message(c, t) ==
    send_unconfirmed_control_message(bump_id(c), factory_register(next_id(c)), t)

\* A variant that registers an expected ACK for the UPDATE.
send_update_message_tracked(c) ==
    send_unconfirmed_control_message(bump_id(c), factory_update(next_id(c)),
                                     c.last_update_chck)

send_update_message(c) ==
    send_control_message(bump_id(c), factory_update(next_id(c)))

send_ping_message(c, t) ==
    [send_unconfirmed_control_message(bump_id(c), factory_ping(next_id(c)), t)
        EXCEPT !.last_ping = t]

check_for_updates(c, t) ==
    [send_update_message(c) EXCEPT !.last_update_chck = t]

\* ArrowClientContext::new
ArrowClientContext_new(diag, t) ==
    send_register_message(
        [diagnostic_mode  |-> diag,
         cmsg_factory     |-> FirstMsgId,
         sessions         |-> sessions_new,
         messages         |-> <<>>,
         expected_acks    |-> <<>>,
         state            |-> Handshake,
         task             |-> FALSE,
         redirect         |-> None,
         last_ping        |-> t,
         last_update_chck |-> t],
        t)

----------------------------------------------------------------------------
(* Periodic tasks *)

\* A variant that sends the REGISTER again on every tick in Handshake.
time_event_register_again(c, t) ==
    IF c.state = Established
    THEN LET c1 == IF (c.last_ping + PING_PERIOD) < t
                   THEN send_ping_message(c, t)
                   ELSE c
             c2 == IF (c1.last_update_chck + UPDATE_CHECK_PERIOD) < t
                   THEN check_for_updates(c1, t)
                   ELSE c1
         IN  IF ack_timeout(c2, t)
             THEN [ctx |-> [c2 EXCEPT !.task = FALSE], notify |-> c2.task]
             ELSE [ctx |-> c2, notify |-> FALSE]
    ELSE [ctx |-> send_register_message(c, t), notify |-> FALSE]

\* A variant in which a closed engine has no periodic tasks.
time_event_idle_when_closed(c, t) ==
    IF c.state = Established /\ ~is_closed(c)
    THEN LET c1 == IF (c.last_ping + PING_PERIOD) < t
                   THEN send_ping_message(c, t)
                   ELSE c
             c2 == IF (c1.last_update_chck + UPDATE_CHECK_PERIOD) < t
                   THEN check_for_updates(c1, t)
                   ELSE c1
         IN  IF ack_timeout(c2, t)
             THEN [ctx |-> [c2 EXCEPT !.task = FALSE], notify |-> c2.task]
             ELSE [ctx |-> c2, notify |-> FALSE]
    ELSE [ctx |-> c, notify |-> FALSE]

\* ArrowClientContext::time_event at clock t: the engine afterwards, and
\* whether the recorded task was notified.
time_event(c, t) ==
    IF c.state = Established
    THEN LET c1 == IF (c.last_ping + PING_PERIOD) < t
                   THEN send_ping_message(c, t)
                   ELSE c
             c2 == IF (c1.last_update_chck + UPDATE_CHECK_PERIOD) < t
                   THEN check_for_updates(c1, t)
                   ELSE c1
         IN  IF ack_timeout(c2, t)
             THEN [ctx |-> [c2 EXCEPT !.task = FALSE], notify |-> c2.task]
             ELSE [ctx |-> c2, notify |-> FALSE]
    ELSE [ctx |-> c, notify |-> FALSE]

----------------------------------------------------------------------------
(* Decoding of inbound control messages *)

EmptyTypes == {"PING", "RESET_SVC_TABLE", "SCAN_NETWORK", "GET_STATUS",
               "GET_SCAN_REPORT"}

\* Each decoder yields "" on success and the DecodeError's text otherwise.
decode_empty_message(f) ==
    IF Len(f.body) = 0 /\ f.target = ""
    THEN ""
    ELSE "malformed Arrow Control Protocol message"

decode_ack_message(f) ==
    IF Len(f.body) = 1 /\ f.target = ""
    THEN ""
    ELSE "malformed Arrow Control Protocol message"

decode_redirect_message(f) ==
    IF Len(f.body) = 0 /\ f.target # ""
    THEN ""
    ELSE "malformed Arrow Control Protocol message"

decode_hup_message(f) ==
    IF Len(f.body) = 2 /\ f.target = ""
    THEN ""
    ELSE "malformed Arrow Control Protocol message"

decode_body(mtype, f) ==
    CASE mtype = "ACK"       -> decode_ack_message(f)
      [] mtype \in EmptyTypes -> decode_empty_message(f)
      [] mtype = "REDIRECT"  -> decode_redirect_message(f)
      [] mtype = "HUP"       -> decode_hup_message(f)
      [] mtype = "UNKNOWN"   -> "unknown Arrow Control Protocol message type"
      [] OTHER               -> "unexpected Arrow Control Protocol message type"

ControlMessage_from_bytes(f) ==
    IF ~f.hdr
    THEN "malformed Arrow Control Protocol message"
    ELSE decode_body(message_type(f.msg_type), f)

----------------------------------------------------------------------------
(* Inbound handlers: each yields the engine afterwards and the result *)

Ok(c) == [ctx |-> c, res |-> OkRes]
Fail(c, kind, msg) == [ctx |-> c, res |-> ErrRes(kind, msg)]

\* A variant: the codes of Unauthorized and UnsupportedProtocolVersion are
\* taken for one another.
process_handshake_ack_swapped(c, msg) ==
    LET err == msg.body[1]
    IN  IF err = ACK_NO_ERROR
        THEN Ok([c EXCEPT !.state = Established,
                          !.redirect = IF c.diagnostic_mode THEN Some("") ELSE @])
        ELSE IF err = ACK_UNSUPPORTED_PROTOCOL_VERSION
        THEN Fail(c, "Unauthorized", "Arrow REGISTER failed (unauthorized)")
        ELSE IF err = ACK_UNAUTHORIZED
        THEN Fail(c, "UnsupportedProtocolVersion",
                  "Arrow REGISTER failed (unsupported version of the Arrow Protocol)")
        ELSE IF err = ACK_INTERNAL_SERVER_ERROR
        THEN Fail(c, "ArrowServerError", "Arrow REGISTER failed (internal server error)")
        ELSE Fail(c, "Other", "Arrow REGISTER failed (unknown error)")

\* A variant: the diagnostic mode is not consulted.
process_handshake_ack_no_diagnostic(c, msg) ==
    LET err == msg.body[1]
    IN  IF err = ACK_NO_ERROR
        THEN Ok([c EXCEPT !.state = Established])
        ELSE IF err = ACK_UNSUPPORTED_PROTOCOL_VERSION
        THEN Fail(c, "UnsupportedProtocolVersion",
                  "Arrow REGISTER failed (unsupported version of the Arrow Protocol)")
        ELSE IF err = ACK_UNAUTHORIZED
        THEN Fail(c, "Unauthorized", "Arrow REGISTER failed (unauthorized)")
        ELSE IF err = ACK_INTERNAL_SERVER_ERROR
        THEN Fail(c, "ArrowServerError", "Arrow REGISTER failed (internal server error)")
        ELSE Fail(c, "Other", "Arrow REGISTER failed (unknown error)")

process_handshake_ack(c, msg) ==
    LET err == msg.body[1]
    IN  IF err = ACK_NO_ERROR
        THEN Ok([c EXCEPT !.state = Established,
                          !.redirect = IF c.diagnostic_mode THEN Some("") ELSE @])
        ELSE IF err = ACK_UNAUTHORIZED
        THEN Fail(c, "Unauthorized", "Arrow REGISTER failed (unauthorized)")
        ELSE IF err = ACK_UNSUPPORTED_PROTOCOL_VERSION
        THEN Fail(c, "UnsupportedProtocolVersion",
                  "Arrow REGISTER failed (unsupported version of the Arrow Protocol)")
        ELSE IF err = ACK_INTERNAL_SERVER_ERROR
        THEN Fail(c, "ArrowServerError", "Arrow REGISTER failed (internal server error)")
        ELSE Fail(c, "Other", "Arrow REGISTER failed (unknown error)")

\* A variant: the ACK's id is not compared with the head entry's.
process_ack_message_any_id(c, msg) ==
    IF c.expected_acks # <<>>
    THEN LET c1 == [c EXCEPT !.expected_acks = Tail(@)]
         IN  IF c1.state = Handshake
             THEN process_handshake_ack(c1, msg)
             ELSE Ok(c1)
    ELSE Fail(c, "Other", "no ACK message expected")

\* A variant: a matching ACK leaves the head entry in the tracker.
process_ack_message_keep_head(c, msg) ==
    IF c.expected_acks # <<>>
    THEN IF msg.msg_id = Head(c.expected_acks).message_id
         THEN IF c.state = Handshake
              THEN process_handshake_ack(c, msg)
              ELSE Ok(c)
         ELSE Fail([c EXCEPT !.expected_acks = Tail(@)], "Other",
                   "unexpected ACK message ID")
    ELSE Fail(c, "Other", "no ACK message expected")

\* A variant that reads the head entry and removes it only when the ids match.
process_ack_message_pop_on_match(c, msg) ==
    IF c.expected_acks # <<>>
    THEN LET expected_ack == Head(c.expected_acks)
             c1 == [c EXCEPT !.expected_acks = Tail(@)]
         IN  IF msg.msg_id = expected_ack.message_id
             THEN IF c1.state = Handshake
                  THEN process_handshake_ack(c1, msg)
                  ELSE Ok(c1)
             ELSE Fail(c, "Other", "unexpected ACK message ID")
    ELSE Fail(c, "Other", "no ACK message expected")

process_ack_message(c, msg) ==
    IF c.expected_acks # <<>>
    THEN LET expected_ack == Head(c.expected_acks)
             c1 == [c EXCEPT !.expected_acks = Tail(@)]
         IN  IF msg.msg_id = expected_ack.message_id
             THEN IF c1.state = Handshake
                  THEN process_handshake_ack(c1, msg)
                  ELSE Ok(c1)
             ELSE Fail(c1, "Other", "unexpected ACK message ID")
    ELSE Fail(c, "Other", "no ACK message expected")

\* A variant: the protocol state is not checked.
process_ping_message_any_state(c, msg) ==
    Ok(send_control_message(c, factory_ack(msg.msg_id, 0)))

process_ping_message(c, msg) ==
    IF c.state # Established
    THEN Fail(c, "Other", "cannot handle PING message in the Handshake state")
    ELSE Ok(send_control_message(c, factory_ack(msg.msg_id, 0)))

process_hup_message(c, msg) ==
    IF c.state # Established
    THEN Fail(c, "Other", "cannot handle HUP message in the Handshake state")
    ELSE Ok([c EXCEPT !.sessions = sessions_close(@, msg.body[1])])

process_redirect_message(c, msg) ==
    IF c.state # Established
    THEN Fail(c, "Other", "cannot handle REDIRECT message in the Handshake state")
    ELSE Ok([c EXCEPT !.redirect = Some(msg.target)])

\* A variant that never sets the scan flag.
process_get_status_message_no_scan_flag(c, msg, scanning) ==
    IF c.state # Established
    THEN Fail(c, "Other", "cannot handle GET_STATUS message in the Handshake state")
    ELSE Ok(send_control_message(c,
             factory_status(msg.msg_id, 0, sessions_len(c.sessions))))

process_get_status_message(c, msg, scanning) ==
    IF c.state # Established
    THEN Fail(c, "Other", "cannot handle GET_STATUS message in the Handshake state")
    ELSE LET status_flags == IF scanning THEN STATUS_FLAG_SCAN ELSE 0
         IN  Ok(send_control_message(c,
                 factory_status(msg.msg_id, status_flags, sessions_len(c.sessions))))

process_get_scan_report_message(c, msg) ==
    IF c.state # Established
    THEN Fail(c, "Other", "cannot handle GET_SCAN_REPORT message in the Handshake state")
    ELSE Ok(send_control_message(c, factory_scan_report(msg.msg_id)))

\* A variant that sends the command before it checks the protocol state.
process_command_send_first(c, cmd) ==
    IF c.state # Established
    THEN [ctx |-> c,
          res |-> [ErrRes("Other", "cannot handle the command in the Handshake state")
                       EXCEPT !.cmd = cmd]]
    ELSE [ctx |-> c, res |-> [OkRes EXCEPT !.cmd = cmd]]

process_command(c, cmd) ==
    IF c.state # Established
    THEN Fail(c, "Other", "cannot handle the command in the Handshake state")
    ELSE [ctx |-> c, res |-> [OkRes EXCEPT !.cmd = cmd]]

process_control_protocol_message(c, f, scanning) ==
    LET derr == ControlMessage_from_bytes(f)
        mt   == message_type(f.msg_type)
    IN  IF derr # ""
        THEN Fail(c, "Other", derr)
        ELSE CASE mt = "ACK"             -> process_ack_message(c, f)
               [] mt = "PING"            -> process_ping_message(c, f)
               [] mt = "HUP"             -> process_hup_message(c, f)
               [] mt = "REDIRECT"        -> process_redirect_message(c, f)
               [] mt = "GET_STATUS"      -> process_get_status_message(c, f, scanning)
               [] mt = "GET_SCAN_REPORT" -> process_get_scan_report_message(c, f)
               [] mt = "RESET_SVC_TABLE" -> process_command(c, "ResetServiceTable")
               [] mt = "SCAN_NETWORK"    -> process_command(c, "ScanNetwork")
               [] mt = "UNKNOWN"         -> Fail(c, "Other", "unknow control message received")
               [] OTHER                  -> Fail(c, "Other", "unexpected control message received")

\* A variant: the protocol state is not checked.
process_service_request_message_any_state(c, f) ==
    Ok([c EXCEPT !.sessions = sessions_send(@, f)])

process_service_request_message(c, f) ==
    IF c.state # Established
    THEN Fail(c, "Other", "cannot handle service requests in the Handshake state")
    ELSE Ok([c EXCEPT !.sessions = sessions_send(@, f)])

\* A variant that keeps processing inbound messages once closed.
start_send_when_closed(c, f, scanning) ==
    IF f.service = 0
    THEN process_control_protocol_message(c, f, scanning)
    ELSE process_service_request_message(c, f)

\* A variant in which a closed engine discards control messages only.
start_send_closed_control_only(c, f, scanning) ==
    IF f.service = 0
    THEN (IF is_closed(c) THEN Ok(c) ELSE process_control_protocol_message(c, f, scanning))
    ELSE process_service_request_message(c, f)

\* Sink::start_send
start_send(c, f, scanning) ==
    IF is_closed(c)
    THEN Ok(c)
    ELSE IF f.service = 0
    THEN process_control_protocol_message(c, f, scanning)
    ELSE process_service_request_message(c, f)

----------------------------------------------------------------------------
(* Outbound poll *)

\* A variant that ends the stream when there is nothing to yield.
poll_end_when_idle(c, t) ==
    IF ack_timeout(c, t)
    THEN [ctx |-> c, frame |-> NoFrame,
          res |-> ErrRes("ConnectionError", "Arrow Service connection timeout")]
    ELSE IF is_closed(c)
    THEN [ctx |-> c, frame |-> NoFrame, res |-> PollRes("End")]
    ELSE IF c.messages # <<>>
    THEN [ctx |-> [c EXCEPT !.messages = Tail(@)], frame |-> Head(c.messages),
          res |-> PollRes("Frame")]
    ELSE IF c.sessions.ready # <<>>
    THEN [ctx |-> [c EXCEPT !.sessions.ready = Tail(@)],
          frame |-> Head(c.sessions.ready), res |-> PollRes("Frame")]
    ELSE [ctx |-> c, frame |-> NoFrame, res |-> PollRes("End")]

\* A variant that polls the session manager before the outbound queue.
poll_sessions_first(c, t) ==
    IF ack_timeout(c, t)
    THEN [ctx |-> c, frame |-> NoFrame,
          res |-> ErrRes("ConnectionError", "Arrow Service connection timeout")]
    ELSE IF is_closed(c)
    THEN [ctx |-> c, frame |-> NoFrame, res |-> PollRes("End")]
    ELSE IF c.sessions.ready # <<>>
    THEN [ctx |-> [c EXCEPT !.sessions.ready = Tail(@)],
          frame |-> Head(c.sessions.ready), res |-> PollRes("Frame")]
    ELSE IF c.messages # <<>>
    THEN [ctx |-> [c EXCEPT !.messages = Tail(@)], frame |-> Head(c.messages),
          res |-> PollRes("Frame")]
    ELSE [ctx |-> [c EXCEPT !.task = TRUE], frame |-> NoFrame,
          res |-> PollRes("NotReady")]

\* Stream::poll at clock t: the engine afterwards, the result and the frame.
poll(c, t) ==
    IF ack_timeout(c, t)
    THEN [ctx |-> c, frame |-> NoFrame,
          res |-> ErrRes("ConnectionError", "Arrow Service connection timeout")]
    ELSE IF is_closed(c)
    THEN [ctx |-> c, frame |-> NoFrame, res |-> PollRes("End")]
    ELSE IF c.messages # <<>>
    THEN [ctx |-> [c EXCEPT !.messages = Tail(@)], frame |-> Head(c.messages),
          res |-> PollRes("Frame")]
    ELSE IF c.sessions.ready # <<>>
    THEN [ctx |-> [c EXCEPT !.sessions.ready = Tail(@)],
          frame |-> Head(c.sessions.ready), res |-> PollRes("Frame")]
    ELSE [ctx |-> [c EXCEPT !.task = TRUE], frame |-> NoFrame,
          res |-> PollRes("NotReady")]

\* connect(): what the driver returns once the engine's stream has ended.
connect_result(c) ==
    IF c.redirect.some
    THEN [st |-> "ok", val |-> c.redirect.val]
    ELSE [st |-> "panic", val |-> "connection closed, redirect expected"]

Running == [st |-> "running", val |-> ""]
Failed == [st |-> "err", val |-> ""]

----------------------------------------------------------------------------
(* Inputs *)

Targets == {"newhost:8900"}
AckErrs == {ACK_NO_ERROR, ACK_UNSUPPORTED_PROTOCOL_VERSION, ACK_UNAUTHORIZED,
            ACK_CONNECTION_ERROR, ACK_UNSUPPORTED_METHOD, ACK_INTERNAL_SERVER_ERROR}
ServerMsgIds == {7}
MsgTypeCodes == 0 .. 12

\* The ids an inbound ACK may carry: those outstanding, and one that is not.
AckIds(c) == {c.expected_acks[i].message_id : i \in DOMAIN c.expected_acks} \cup {0}

\* The err field of an ACK is read in Handshake only: every code is delivered
\* there, and two of them once the engine is Established.
AckFrames(c) ==
    {Msg(0, CMSG_ACK, id, <<err>>, "") :
        id \in AckIds(c),
        err \in (IF c.state = Handshake THEN AckErrs
                 ELSE {ACK_NO_ERROR, ACK_UNAUTHORIZED})}

\* A well-formed control message of every type code but ACK.
ControlFrame(code, id, tgt, sid) ==
    CASE code = CMSG_REDIRECT -> Msg(0, code, id, <<>>, tgt)
      [] code = CMSG_HUP      -> Msg(0, code, id, <<sid, 0>>, "")
      [] OTHER                -> Msg(0, code, id, <<>>, "")

ControlFrames ==
    {ControlFrame(code, id, tgt, sid) :
        code \in MsgTypeCodes \ {CMSG_ACK}, id \in ServerMsgIds,
        tgt \in Targets, sid \in SessionIds}

\* Control payloads that do not decode: shorter than a header, or a body
\* where none is allowed.
MalformedFrames ==
    {[Msg(0, CMSG_PING, id, <<>>, "") EXCEPT !.hdr = FALSE] : id \in ServerMsgIds}
    \cup {Msg(0, CMSG_PING, id, <<0>>, "") : id \in ServerMsgIds}

ServiceFrames == {Msg(sid, 0, 0, <<>>, "data") : sid \in SessionIds}

\* The frames the transport delivers to a closed engine. A closed engine
\* returns from start_send before it reads the message, so one frame of each
\* class stands for the class.
ClosedFrames ==
    {Msg(0, CMSG_ACK, 0, <<ACK_NO_ERROR>>, ""),
     Msg(0, CMSG_REDIRECT, 7, <<>>, "other:8900"),
     Msg(0, CMSG_PING, 7, <<0>>, ""),
     Msg(1, 0, 0, <<>>, "data")}

----------------------------------------------------------------------------
(* Actions *)

IsAck(f) == f.service = 0 /\ f.hdr /\ message_type(f.msg_type) = "ACK"

\* The ids of the messages of a queue that were sent unconfirmed.
UnconfirmedIds(msgs) ==
    {msgs[i].msg_id : i \in {j \in DOMAIN msgs :
        msgs[j].service = 0 /\ msgs[j].msg_type \in {CMSG_REGISTER, CMSG_PING}}}

\* The bound on the outbound queue: an operation may enqueue only while its
\* frames fit.
Fits(before, after, room) ==
    Len(after.messages) > Len(before.messages) => Len(after.messages) <= room

\* The frames an operation appended to the outbound queue.
Enqueued(before, after) == SubSeq(after.messages, Len(before.messages) + 1, Len(after.messages))

Init ==
    /\ \E diag \in BOOLEAN : ctx = ArrowClientContext_new(diag, 0)
    /\ now = 0
    /\ woken = TRUE
    /\ driver = Running
    /\ op = "new"
    /\ res = OkRes
    /\ frame = NoFrame
    /\ outstanding = UnconfirmedIds(ctx.messages)
    /\ pings = 0
    /\ checks = 0
    /\ est_at = -1

\* A frame from the transport is handed to the engine; the pipe then polls it.
DeliverTo(f, scanning, room) ==
    /\ driver = Running
    /\ LET r == start_send(ctx, f, scanning)
       IN  /\ Fits(ctx, r.ctx, room)
           /\ ctx' = r.ctx
           /\ res' = r.res
           /\ driver' = IF r.res.tag = "Err" THEN Failed ELSE driver
    /\ op' = "start_send"
    /\ frame' = f
    /\ woken' = TRUE
    /\ outstanding' = IF IsAck(f) /\ ~is_closed(ctx)
                      THEN outstanding \ {f.msg_id}
                      ELSE outstanding
    /\ UNCHANGED now

Deliver(f, scanning) == DeliverTo(f, scanning, MaxQueue)

RecvAck ==
    /\ ~is_closed(ctx)
    /\ \E f \in AckFrames(ctx) : Deliver(f, FALSE)
    /\ UNCHANGED <<pings, checks, est_at>>

RecvControl ==
    /\ ~is_closed(ctx)
    /\ \E f \in ControlFrames :
          \E scanning \in (IF f.msg_type = CMSG_GET_STATUS THEN BOOLEAN ELSE {FALSE}) :
             Deliver(f, scanning)
    /\ UNCHANGED <<pings, checks, est_at>>

RecvMalformed ==
    /\ ~is_closed(ctx)
    /\ \E f \in MalformedFrames : Deliver(f, FALSE)
    /\ UNCHANGED <<pings, checks, est_at>>

RecvService ==
    /\ ~is_closed(ctx)
    /\ \E f \in ServiceFrames : Deliver(f, FALSE)
    /\ UNCHANGED <<pings, checks, est_at>>

RecvClosed ==
    /\ is_closed(ctx)
    /\ \E f \in ClosedFrames : Deliver(f, FALSE)
    /\ UNCHANGED <<pings, checks, est_at>>

\* The periodic task fires: one second has passed.
TickStep(limit, room) ==
    /\ driver = Running
    /\ now < limit
    /\ LET t == now + TICK_PERIOD
           r == time_event(ctx, t)
       IN  /\ Fits(ctx, r.ctx, room)
           /\ ctx' = r.ctx
           /\ now' = t
           /\ woken' = (woken \/ r.notify)
           /\ outstanding' = outstanding \cup UnconfirmedIds(Enqueued(ctx, r.ctx))
    /\ op' = "time_event"
    /\ res' = OkRes
    /\ frame' = NoFrame
    /\ UNCHANGED driver

Tick ==
    /\ TickStep(MaxTime, MaxQueue)
    /\ UNCHANGED <<pings, checks, est_at>>

\* The task consuming the engine polls it; the driver ends with the stream.
PollStep ==
    /\ driver = Running
    /\ LET r == poll(ctx, now)
       IN  /\ ctx' = r.ctx
           /\ res' = r.res
           /\ frame' = r.frame
           /\ woken' = (r.res.tag = "Frame")
           /\ driver' = CASE r.res.tag = "Err" -> Failed
                          [] r.res.tag = "End" -> connect_result(r.ctx)
                          [] OTHER             -> driver
    /\ op' = "poll"
    /\ UNCHANGED <<now, outstanding>>

Poll ==
    /\ PollStep
    /\ UNCHANGED <<pings, checks, est_at>>

\* A session has a frame for the Arrow Service and notifies the consumer.
SessionProgress ==
    /\ driver = Running
    /\ Len(ctx.sessions.ready) < MaxReady
    /\ \E sid \in ctx.sessions.open :
           ctx' = [ctx EXCEPT !.sessions.ready = Append(@, Msg(sid, 0, 0, <<>>, "data"))]
    /\ woken' = TRUE
    /\ op' = "session"
    /\ res' = OkRes
    /\ frame' = NoFrame
    /\ UNCHANGED <<now, driver, outstanding, pings, checks, est_at>>

\* Every kind of frame, over the first seconds of a connection.
Next ==
    \/ RecvAck
    \/ RecvControl
    \/ RecvMalformed
    \/ RecvService
    \/ RecvClosed
    \/ Tick
    \/ Poll
    \/ SessionProgress

Spec == Init /\ [][Next]_vars

----------------------------------------------------------------------------
(* Session traffic next to the handshake: ACKs, REDIRECT and service frames, *)
(* over a time that spans the ACK timeout of the REGISTER.                   *)

RedirectFrames ==
    {ControlFrame(CMSG_REDIRECT, id, tgt, sid) :
        id \in ServerMsgIds, tgt \in Targets, sid \in SessionIds}

RecvRedirect ==
    /\ ~is_closed(ctx)
    /\ \E f \in RedirectFrames : Deliver(f, FALSE)
    /\ UNCHANGED <<pings, checks, est_at>>

TickSession ==
    /\ TickStep(MaxSessTime, MaxQueue)
    /\ UNCHANGED <<pings, checks, est_at>>

NextSession ==
    \/ RecvAck
    \/ RecvRedirect
    \/ RecvService
    \/ RecvClosed
    \/ TickSession
    \/ Poll
    \/ SessionProgress

SpecSession == Init /\ [][NextSession]_vars

----------------------------------------------------------------------------
(* A long-lived connection: ACKs and REDIRECT, over a time that spans two *)
(* PING periods and the ACK timeout of a PING.                            *)

\* An ACK or a second REDIRECT reaches an engine that has been closed.
RecvClosedControl ==
    /\ is_closed(ctx)
    /\ \E f \in {g \in ClosedFrames : g.msg_type \in {CMSG_ACK, CMSG_REDIRECT}} :
           f.service = 0 /\ Deliver(f, FALSE)
    /\ UNCHANGED <<pings, checks, est_at>>

TickLong ==
    /\ TickStep(MaxLongTime, MaxLongQueue)
    /\ UNCHANGED <<pings, checks, est_at>>

NextLong ==
    \/ RecvAck
    \/ RecvRedirect
    \/ RecvClosedControl
    \/ TickLong
    \/ Poll

SpecLong == Init /\ [][NextLong]_vars

----------------------------------------------------------------------------
(* A connection whose every REGISTER and PING is acknowledged, with the *)
(* PINGs and the update checks of time_event counted.                   *)

RecvHeadAck ==
    /\ ~is_closed(ctx)
    /\ ctx.expected_acks # <<>>
    /\ Deliver(Msg(0, CMSG_ACK, Head(ctx.expected_acks).message_id, <<ACK_NO_ERROR>>, ""),
               FALSE)
    /\ est_at' = IF ctx.state = Handshake THEN now ELSE est_at
    /\ UNCHANGED <<pings, checks>>

TickCounted ==
    /\ TickStep(MaxLongTime, MaxQueue)
    /\ pings' = pings + Cardinality(UnconfirmedIds(Enqueued(ctx, ctx')))
    /\ checks' = checks + (IF ctx'.last_update_chck # ctx.last_update_chck THEN 1 ELSE 0)
    /\ UNCHANGED est_at

NextPeriodic ==
    \/ RecvHeadAck
    \/ TickCounted
    \/ Poll

SpecPeriodic == Init /\ [][NextPeriodic]_vars

----------------------------------------------------------------------------
(* Properties *)

Delivered == op' = "start_send"
Polled == op' = "poll"
Ticked == op' = "time_event"

AckErr(f) == f.body[1]
HeadId(c) == Head(c.expected_acks).message_id
ConnectionTimeout == ErrRes("ConnectionError", "Arrow Service connection timeout")

\* C1: the engine starts in Handshake; it becomes Established only in a
\* start_send of an ACK that carries the id of the REGISTER at the head of
\* the tracker and err = ACK_NO_ERROR, which empties the tracker and returns
\* no error; the state is always Handshake or Established, and Established
\* is never left.
C1_Step ==
    /\ (op = "new" => ctx.state = Handshake)
    /\ ctx'.state \in {Handshake, Established}
    /\ (ctx.state = Established => ctx'.state = Established)
    /\ (ctx.state = Handshake /\ ctx'.state = Established) =>
           /\ Delivered
           /\ IsAck(frame')
           /\ ctx.expected_acks # <<>>
           /\ frame'.msg_id = HeadId(ctx)
           /\ HeadId(ctx) = FirstMsgId
           /\ AckErr(frame') = ACK_NO_ERROR
           /\ ctx'.expected_acks = <<>>
           /\ res' = OkRes

C1_HandshakeOnce == [][C1_Step]_vars

C1_Witness ==
    /\ ctx.state = Established
    /\ op = "start_send"
    /\ IsAck(frame)
    /\ frame.msg_id = FirstMsgId
    /\ ctx.expected_acks = <<>>
    /\ res = OkRes

\* C2: in Handshake every inbound control message that is not an ACK makes
\* start_send fail with an Other error, for a PING with the text "cannot
\* handle PING message in the Handshake state"; the engine is left as it was
\* (no reply, no session closed, no redirect) and no command is sent.
C2_Step ==
    (Delivered /\ ctx.state = Handshake /\ ~is_closed(ctx)
        /\ frame'.service = 0 /\ ~IsAck(frame')) =>
           /\ res'.tag = "Err"
           /\ res'.kind = "Other"
           /\ res'.cmd = ""
           /\ ctx' = ctx
           /\ driver' = Failed
           /\ (frame' = ControlFrame(CMSG_PING, frame'.msg_id, "", 0) =>
                  res'.msg = "cannot handle PING message in the Handshake state")

C2_HandshakeRejects == [][C2_Step]_vars

C2_Witness ==
    /\ op = "start_send"
    /\ ctx.state = Handshake
    /\ frame.service = 0
    /\ frame.msg_type = CMSG_PING
    /\ res = ErrRes("Other", "cannot handle PING message in the Handshake state")

\* C3: an ACK received while the tracker is empty fails with "no ACK message
\* expected"; an ACK whose id differs from the id at the head of the tracker
\* fails with "unexpected ACK message ID"; an ACK with the head's id removes
\* the head entry and no other.
C3_Step ==
    (Delivered /\ ~is_closed(ctx) /\ IsAck(frame')) =>
        IF ctx.expected_acks = <<>>
        THEN /\ res' = ErrRes("Other", "no ACK message expected")
             /\ ctx'.expected_acks = <<>>
        ELSE IF frame'.msg_id # HeadId(ctx)
        THEN res' = ErrRes("Other", "unexpected ACK message ID")
        ELSE ctx'.expected_acks = Tail(ctx.expected_acks)

C3_AckOrder == [][C3_Step]_vars

\* An ACK for the second outstanding message arrives before the ACK for the first.
C3_Witness ==
    /\ op = "start_send"
    /\ IsAck(frame)
    /\ res = ErrRes("Other", "unexpected ACK message ID")
    /\ ctx.expected_acks # <<>>
    /\ frame.msg_id = HeadId(ctx)

\* C4: in Handshake an ACK with the REGISTER's id and a non-zero err fails:
\* ACK_UNAUTHORIZED with Unauthorized, ACK_UNSUPPORTED_PROTOCOL_VERSION with
\* UnsupportedProtocolVersion, ACK_INTERNAL_SERVER_ERROR with
\* ArrowServerError, any other code with Other; the state stays Handshake and
\* redirect stays unset.
HandshakeAckKind(err) ==
    CASE err = ACK_UNAUTHORIZED                 -> "Unauthorized"
      [] err = ACK_UNSUPPORTED_PROTOCOL_VERSION -> "UnsupportedProtocolVersion"
      [] err = ACK_INTERNAL_SERVER_ERROR        -> "ArrowServerError"
      [] OTHER                                  -> "Other"

C4_Step ==
    (Delivered /\ ctx.state = Handshake /\ IsAck(frame')
        /\ ctx.expected_acks # <<>> /\ frame'.msg_id = HeadId(ctx)
        /\ AckErr(frame') # ACK_NO_ERROR) =>
           /\ res'.tag = "Err"
           /\ res'.kind = HandshakeAckKind(AckErr(frame'))
           /\ ctx'.state = Handshake
           /\ ctx'.redirect = None
           /\ driver' = Failed

C4_HandshakeErrors == [][C4_Step]_vars

C4_Witness ==
    /\ op = "start_send"
    /\ IsAck(frame)
    /\ frame.msg_id = FirstMsgId
    /\ AckErr(frame) = ACK_UNAUTHORIZED
    /\ res.kind = "Unauthorized"
    /\ ctx.state = Handshake

\* The number of tracker entries that carry a message id.
Tracked(c, id) ==
    Cardinality({i \in DOMAIN c.expected_acks : c.expected_acks[i].message_id = id})

\* The last step was an ACK that did not carry the id at the head of the tracker.
MismatchedAck ==
    /\ op = "start_send"
    /\ IsAck(frame)
    /\ res = ErrRes("Other", "unexpected ACK message ID")

\* C5 as stated: every unconfirmed message whose ACK has not been processed
\* has exactly one tracker entry with its id, in every reachable state.
C5_ExactlyOneEntry == \A id \in outstanding : Tracked(ctx, id) = 1

\* C5: every unconfirmed message whose ACK has not been processed has
\* exactly one tracker entry with its id, except in the state left by an ACK
\* with another id: that ACK has removed the entry at the head of the tracker
\* before start_send failed, so one outstanding message has none. No message
\* ever has two entries.
C5_TrackedUntilAck ==
    /\ \A id \in outstanding : Tracked(ctx, id) <= 1
    /\ ~MismatchedAck => \A id \in outstanding : Tracked(ctx, id) = 1
    /\ MismatchedAck =>
           /\ Cardinality({id \in outstanding : Tracked(ctx, id) = 0}) <= 1
           /\ driver = Failed

\* Two PINGs are outstanding, each with its entry.
C5_Witness ==
    /\ driver = Running
    /\ ctx.state = Established
    /\ Cardinality(outstanding) = 2
    /\ Len(ctx.expected_acks) = 2
    /\ \A id \in outstanding : Tracked(ctx, id) = 1

IsRedirect(f) == f.service = 0 /\ f.hdr /\ message_type(f.msg_type) = "REDIRECT"

\* The engine was closed by a REDIRECT (and not by the diagnostic mode).
Redirected(c) == c.redirect.some /\ c.redirect.val \in Targets

\* C6 as stated: once a REDIRECT has set redirect, every poll signals
\* end-of-stream and the driver returns Ok(target).
C6_CleanStep ==
    (Polled /\ Redirected(ctx)) =>
        /\ res'.tag = "End"
        /\ driver' = [st |-> "ok", val |-> ctx.redirect.val]

C6_AlwaysCleanEnd == [][C6_CleanStep]_vars

\* C6: a REDIRECT received in Established sets redirect to its target; once
\* set, redirect never changes and start_send discards every frame; a poll
\* never yields a frame: it signals end-of-stream and the driver returns
\* Ok(target), unless the head of the tracker has expired at that poll, in
\* which case the poll fails with the connection timeout.
C6_Step ==
    /\ (Delivered /\ ~is_closed(ctx) /\ ctx.state = Established /\ IsRedirect(frame')) =>
           /\ ctx'.redirect = Some(frame'.target)
           /\ res' = OkRes
    /\ is_closed(ctx) => ctx'.redirect = ctx.redirect
    /\ (Delivered /\ is_closed(ctx)) => (ctx' = ctx /\ res' = OkRes)
    /\ (Polled /\ is_closed(ctx)) =>
           /\ frame' = NoFrame
           /\ ctx' = ctx
           /\ IF ack_timeout(ctx, now)
              THEN res' = ConnectionTimeout /\ driver' = Failed
              ELSE res'.tag = "End" /\ driver' = [st |-> "ok", val |-> ctx.redirect.val]

C6_RedirectEnds == [][C6_Step]_vars

C6_Witness ==
    /\ op = "poll"
    /\ res.tag = "End"
    /\ driver = [st |-> "ok", val |-> "newhost:8900"]
    /\ ctx.messages # <<>>

\* The consumer is suspended: it has recorded its task and is not scheduled.
Suspended == ctx.task /\ ~woken

\* C7: a tick that finds the consumer suspended and the head of the tracker
\* expired wakes the consumer, in Handshake as in Established.
C7_TickStep == (Ticked /\ Suspended /\ ack_timeout(ctx', now')) => woken'

C7_TimeoutWakes == [][C7_TickStep]_vars

\* C8: an operation that enqueues a frame while the consumer is suspended
\* notifies the consumer.
C8_EnqueueStep ==
    (Suspended /\ Len(ctx'.messages) > Len(ctx.messages)) => woken'

C8_EnqueueNotifies == [][C8_EnqueueStep]_vars

\* C9: a poll (1) fails with the connection timeout when the head of the
\* tracker has expired, (2) else signals end-of-stream when redirect is set,
\* (3) else yields and removes the front of the outbound queue, (4) else
\* yields the session manager's frame, (5) else returns NotReady and records
\* the task; a session frame is yielded only when the outbound queue is
\* empty, and only a NotReady poll records the task.
C9_Step ==
    Polled =>
        /\ IF ack_timeout(ctx, now)
           THEN res' = ConnectionTimeout /\ ctx' = ctx /\ frame' = NoFrame
           ELSE IF is_closed(ctx)
           THEN res' = PollRes("End") /\ ctx' = ctx /\ frame' = NoFrame
           ELSE IF ctx.messages # <<>>
           THEN /\ res' = PollRes("Frame")
                /\ frame' = Head(ctx.messages)
                /\ ctx' = [ctx EXCEPT !.messages = Tail(@)]
           ELSE IF ctx.sessions.ready # <<>>
           THEN /\ res' = PollRes("Frame")
                /\ frame' = Head(ctx.sessions.ready)
                /\ ctx' = [ctx EXCEPT !.sessions.ready = Tail(@)]
           ELSE /\ res' = PollRes("NotReady")
                /\ frame' = NoFrame
                /\ ctx' = [ctx EXCEPT !.task = TRUE]
        /\ (res'.tag = "Frame" /\ frame'.service # 0) => ctx.messages = <<>>
        /\ res'.tag # "NotReady" => ctx'.task = ctx.task

C9_PollPriority == [][C9_Step]_vars

\* A session frame is yielded while the consumer's task is not recorded.
C9_Witness ==
    /\ op = "poll"
    /\ res.tag = "Frame"
    /\ frame.service # 0
    /\ ctx.messages = <<>>
    /\ ~ctx.task

\* C10: T seconds after the engine became Established, with one tick per
\* second and every PING acknowledged, floor(T/60) PINGs have been enqueued
\* and floor(T/5) update checks performed.
C10_Periodicity ==
    (ctx.state = Established /\ est_at >= 0) =>
        /\ pings = (now - est_at) \div PING_PERIOD
        /\ checks = (now - est_at) \div UPDATE_CHECK_PERIOD

\* Every frame the transport may hand to an engine.
AllFrames(c) ==
    AckFrames(c) \cup ControlFrames \cup MalformedFrames \cup ServiceFrames \cup ClosedFrames

\* C11: in every reachable state where redirect is set, start_send of every
\* frame (control or service, well-formed or not, of every type) returns
\* success with no command and leaves the whole engine unchanged.
C11_ClosedDiscards ==
    is_closed(ctx) =>
        \A f \in AllFrames(ctx) : \A scanning \in BOOLEAN :
            start_send(ctx, f, scanning) = Ok(ctx)

\* A service frame has been handed to a closed engine.
C11_Witness ==
    /\ op = "start_send"
    /\ is_closed(ctx)
    /\ frame.service # 0
    /\ res = OkRes
    /\ driver = Running

\* C12: once redirect is set no step changes or clears it; a second REDIRECT,
\* with whatever target, returns no error.
C12_Step ==
    ctx.redirect.some =>
        /\ ctx'.redirect = ctx.redirect
        /\ (Delivered /\ IsRedirect(frame')) => res' = OkRes

C12_RedirectWriteOnce == [][C12_Step]_vars

\* A second REDIRECT with another target has been processed.
C12_Witness ==
    /\ op = "start_send"
    /\ IsRedirect(frame)
    /\ frame.target = "other:8900"
    /\ ctx.redirect = Some("newhost:8900")
    /\ res = OkRes

\* The step handed frame' to the session manager.
Forwarded == ctx'.sessions = sessions_send(ctx.sessions, frame')

\* C13 as stated: every frame with a non-zero service field that arrives
\* while the engine is not closed is forwarded to the session manager and
\* start_send returns success, in Handshake as in Established.
C13_ForwardStep ==
    (Delivered /\ ~is_closed(ctx) /\ frame'.service # 0) =>
        (res' = OkRes /\ Forwarded)

C13_AlwaysForwarded == [][C13_ForwardStep]_vars

\* C13: a frame with a non-zero service field that arrives while the engine
\* is not closed is forwarded to the session manager, with success, in
\* Established; in Handshake start_send fails with Other("cannot handle
\* service requests in the Handshake state") and nothing is forwarded. A
\* frame with service 0 opens no session.
C13_Step ==
    /\ (Delivered /\ ~is_closed(ctx) /\ frame'.service # 0) =>
           IF ctx.state = Established
           THEN /\ res' = OkRes
                /\ Forwarded
                /\ frame'.service \in ctx'.sessions.open
                /\ [ctx' EXCEPT !.sessions = ctx.sessions] = ctx
           ELSE /\ res' = ErrRes("Other",
                                 "cannot handle service requests in the Handshake state")
                /\ ctx' = ctx
                /\ driver' = Failed
    /\ (Delivered /\ frame'.service = 0) =>
           /\ ctx'.sessions.open \subseteq ctx.sessions.open
           /\ ctx'.sessions.ready = SelectSeq(ctx.sessions.ready,
                                        LAMBDA m : m.service \in ctx'.sessions.open)

C13_ServiceFrames == [][C13_Step]_vars

C13_Witness ==
    /\ op = "start_send"
    /\ frame.service # 0
    /\ ctx.state = Established
    /\ ~is_closed(ctx)
    /\ res = OkRes
    /\ frame.service \in ctx.sessions.open

\* The step is the successful ACK of the REGISTER.
RegisterAcked ==
    /\ Delivered
    /\ ctx.state = Handshake
    /\ IsAck(frame')
    /\ ctx.expected_acks # <<>>
    /\ frame'.msg_id = HeadId(ctx)
    /\ AckErr(frame') = ACK_NO_ERROR

\* C14: the successful ACK of the REGISTER sets the state to Established
\* and, in diagnostic mode, redirect to the empty string in the same step,
\* so that a poll of the engine it leaves signals end-of-stream and the
\* driver returns Ok(""); with the diagnostic mode off it leaves redirect
\* unset. A poll of an engine in diagnostic mode that is Established, its
\* tracker head not expired, ends the stream with Ok("").
C14_Step ==
    /\ RegisterAcked =>
           /\ ctx'.state = Established
           /\ res' = OkRes
           /\ IF ctx.diagnostic_mode
              THEN /\ ctx'.redirect = Some("")
                   /\ poll(ctx', now').res = PollRes("End")
                   /\ connect_result(poll(ctx', now').ctx) = [st |-> "ok", val |-> ""]
              ELSE ctx'.redirect = None
    /\ (Polled /\ ctx.diagnostic_mode /\ ctx.state = Established
            /\ ~ack_timeout(ctx, now)) =>
           /\ res' = PollRes("End")
           /\ driver' = [st |-> "ok", val |-> ""]

C14_DiagnosticMode == [][C14_Step]_vars

C14_Witness ==
    /\ op = "poll"
    /\ ctx.diagnostic_mode
    /\ ctx.state = Established
    /\ res = PollRes("End")
    /\ driver = [st |-> "ok", val |-> ""]

\* C15: poll signals end-of-stream only where redirect is set: in every
\* reachable state a poll that would end the stream finds redirect set, a
\* poll that has ended it left the driver with Ok(redirect), and the
\* driver's extraction of the redirect has never failed.
C15_EndOnlyWhenRedirected ==
    /\ poll(ctx, now).res.tag = "End" =>
           /\ ctx.redirect.some
           /\ connect_result(poll(ctx, now).ctx) = [st |-> "ok", val |-> ctx.redirect.val]
    /\ (op = "poll" /\ res.tag = "End") =>
           /\ ctx.redirect.some
           /\ driver = [st |-> "ok", val |-> ctx.redirect.val]
    /\ driver.st # "panic"

\* The stream has ended on an engine with nothing left to yield.
C15_Witness ==
    /\ op = "poll"
    /\ res.tag = "End"
    /\ ctx.messages = <<>>
    /\ ctx.redirect = Some("newhost:8900")
    /\ driver.st = "ok"

IsRegister(m) == m.service = 0 /\ m.msg_type = CMSG_REGISTER

\* The positions of the REGISTER messages in a queue.
Registers(msgs) == {i \in DOMAIN msgs : IsRegister(msgs[i])}

\* C16: construction leaves one frame in the outbound queue, the REGISTER,
\* and one tracker entry with its id; no step enqueues a REGISTER, a
\* REGISTER in the queue is at its head, and while it is there a poll that
\* yields a frame yields it: the first frame yielded is the REGISTER.
C16_Step ==
    /\ op = "new" =>
           /\ Len(ctx.messages) = 1
           /\ IsRegister(ctx.messages[1])
           /\ Len(ctx.expected_acks) = 1
           /\ ctx.expected_acks[1].message_id = ctx.messages[1].msg_id
    /\ Registers(ctx.messages) \subseteq {1}
    /\ Registers(Enqueued(ctx, ctx')) = {}
    /\ Len(ctx'.messages) >= Len(ctx.messages) =>
           SubSeq(ctx'.messages, 1, Len(ctx.messages)) = ctx.messages
    /\ (Polled /\ res'.tag = "Frame" /\ Registers(ctx.messages) # {}) =>
           /\ IsRegister(frame')
           /\ Registers(ctx'.messages) = {}

C16_OneRegister == [][C16_Step]_vars

\* The first frame yielded by poll: the REGISTER, with the first id.
C16_Witness ==
    /\ op = "poll"
    /\ res.tag = "Frame"
    /\ IsRegister(frame)
    /\ frame.msg_id = FirstMsgId
    /\ ctx.state = Handshake
    /\ Len(ctx.expected_acks) = 1

\* The deadline of the head of the tracker: its enqueue time plus ACK_TIMEOUT.
HeadDeadline(c) == Head(c.expected_acks).timestamp + ACK_TIMEOUT

\* C17: the ACK-timeout test is true exactly when the tracker is not empty
\* and the deadline of its head is less than or equal to the current time.
C17_TimeoutAtDeadline ==
    ack_timeout(ctx, now) <=> (ctx.expected_acks # <<>> /\ HeadDeadline(ctx) <= now)

----------------------------------------------------------------------------
(* The codec of control messages on the bytes of a payload. A message is a  *)
(* header (msg_id, msg_type) and a body, one record per body type.          *)

BYTE == 256
HEADER_SIZE == 4

u16_to_be(n) == <<n \div BYTE, n % BYTE>>
u16_from_be(b) == b[1] * BYTE + b[2]
u32_to_be(n) ==
    <<n \div (BYTE * BYTE * BYTE), (n \div (BYTE * BYTE)) % BYTE, (n \div BYTE) % BYTE, n % BYTE>>
u32_from_be(b) == ((b[1] * BYTE + b[2]) * BYTE + b[3]) * BYTE + b[4]

\* A variant that reads the header's fields in little-endian order.
ControlMessageHeader_from_bytes_le(bytes) ==
    [msg_id   |-> bytes[2] * BYTE + bytes[1],
     msg_type |-> bytes[4] * BYTE + bytes[3]]

\* Encode for ControlMessageHeader
ControlMessageHeader_encode(h) == u16_to_be(h.msg_id) \o u16_to_be(h.msg_type)

\* FromBytes for ControlMessageHeader
ControlMessageHeader_from_bytes(bytes) ==
    [msg_id   |-> u16_from_be(SubSeq(bytes, 1, 2)),
     msg_type |-> u16_from_be(SubSeq(bytes, 3, 4))]

DecodeOk(v) == [err |-> "", val |-> v]
DecodeErr(text) == [err |-> text, val |-> <<>>]

EmptyMessage == [kind |-> "empty"]
AckMessage(err) == [kind |-> "ack", err |-> err]
RedirectMessage(target) == [kind |-> "redirect", target |-> target]
HupMessage(session_id, error_code) ==
    [kind |-> "hup", session_id |-> session_id, error_code |-> error_code]
\* The body of a message the client only sends, as the bytes of its encoding.
SentBody(bytes) == [kind |-> "sent", bytes |-> bytes]

\* Encode for the body types
body_encode(b) ==
    CASE b.kind = "empty"    -> <<>>
      [] b.kind = "ack"      -> u32_to_be(b.err)
      [] b.kind = "redirect" -> b.target \o <<0>>
      [] b.kind = "hup"      -> u32_to_be(b.session_id) \o u32_to_be(b.error_code)
      [] b.kind = "sent"     -> b.bytes

AckMessage_from_bytes(bytes) ==
    IF Len(bytes) = 4
    THEN DecodeOk(AckMessage(u32_from_be(bytes)))
    ELSE DecodeErr("malformed Arrow Control Protocol ACK message")

RedirectMessage_from_bytes(bytes) ==
    IF bytes # <<>> /\ bytes[Len(bytes)] = 0
    THEN DecodeOk(RedirectMessage(SubSeq(bytes, 1, Len(bytes) - 1)))
    ELSE DecodeErr("malformed Arrow Control Protocol REDIRECT message")

HupMessage_from_bytes(bytes) ==
    IF Len(bytes) = 8
    THEN DecodeOk(HupMessage(u32_from_be(SubSeq(bytes, 1, 4)),
                             u32_from_be(SubSeq(bytes, 5, 8))))
    ELSE DecodeErr("malformed Arrow Control Protocol HUP message")

\* ControlMessage::decode_empty_message on bytes
EmptyMessage_from_bytes(bytes) ==
    IF Len(bytes) = 0
    THEN DecodeOk(EmptyMessage)
    ELSE DecodeErr("malformed Arrow Control Protocol message")

\* ControlMessage::decode_body on bytes
decode_body_bytes(mtype, bytes) ==
    CASE mtype = "ACK"        -> AckMessage_from_bytes(bytes)
      [] mtype \in EmptyTypes -> EmptyMessage_from_bytes(bytes)
      [] mtype = "REDIRECT"   -> RedirectMessage_from_bytes(bytes)
      [] mtype = "HUP"        -> HupMessage_from_bytes(bytes)
      [] mtype = "UNKNOWN"    -> DecodeErr("unknown Arrow Control Protocol message type")
      [] OTHER                -> DecodeErr("unexpected Arrow Control Protocol message type")

\* Encode for ControlMessage
ControlMessage_encode(m) == ControlMessageHeader_encode(m.header) \o body_encode(m.body)

\* FromBytes for ControlMessage on bytes
ControlMessage_decode(bytes) ==
    IF Len(bytes) < HEADER_SIZE
    THEN DecodeErr("malformed Arrow Control Protocol message")
    ELSE LET header == ControlMessageHeader_from_bytes(SubSeq(bytes, 1, HEADER_SIZE))
             body   == decode_body_bytes(message_type(header.msg_type),
                                         SubSeq(bytes, HEADER_SIZE + 1, Len(bytes)))
         IN  IF body.err # ""
             THEN body
             ELSE DecodeOk([header |-> header, body |-> body.val])

\* Header and body values of the messages that are encoded.
CodecMsgIds == {0, 1, 255, 256, 4660, 65535}
CodecErrs == {0, 2, 66051}
CodecTargets == {<<>>, <<110, 58, 56>>}
CodecSessions == {1, 258}
CodecSentBodies == {<<>>, <<1, 0>>}

\* The body types a message of each type code is built with.
CodecBodies(code) ==
    CASE code = CMSG_ACK      -> {AckMessage(e) : e \in CodecErrs}
      [] code = CMSG_REDIRECT -> {RedirectMessage(t) : t \in CodecTargets}
      [] code = CMSG_HUP      -> {HupMessage(sid, e) : sid \in CodecSessions, e \in CodecErrs}
      [] code \in {CMSG_REGISTER, CMSG_UPDATE, CMSG_STATUS, CMSG_SCAN_REPORT}
                              -> {SentBody(b) : b \in CodecSentBodies}
      [] OTHER                -> {EmptyMessage}

CodecMessages ==
    UNION {{[header |-> [msg_id |-> id, msg_type |-> code], body |-> b] :
               id \in CodecMsgIds, b \in CodecBodies(code)} :
           code \in CMSG_ACK .. CMSG_SCAN_REPORT}

\* A control message of every type is encoded, and its bytes decoded.
InitCodec ==
    /\ ctx = ArrowClientContext_new(FALSE, 0)
    /\ now = 0
    /\ woken = TRUE
    /\ driver = Running
    /\ op = "message"
    /\ res = <<>>
    /\ frame \in CodecMessages
    /\ outstanding = {}
    /\ pings = 0
    /\ checks = 0
    /\ est_at = -1

Encode ==
    /\ op = "message"
    /\ op' = "encode"
    /\ res' = ControlMessage_encode(frame)
    /\ UNCHANGED <<ctx, now, woken, driver, frame, outstanding, pings, checks, est_at>>

Decode ==
    /\ op = "encode"
    /\ op' = "decode"
    /\ res' = ControlMessage_decode(res)
    /\ UNCHANGED <<ctx, now, woken, driver, frame, outstanding, pings, checks, est_at>>

NextCodec ==
    \/ Encode
    \/ Decode

SpecCodec == InitCodec /\ [][NextCodec]_vars

\* The types of the messages the client sends and never receives.
SentTypes == {"REGISTER", "UPDATE", "STATUS", "SCAN_REPORT"}

C19_Step ==
    /\ (Polled /\ res'.tag = "Frame" /\ ctx.messages # <<>>) =>
           /\ frame' = Head(ctx.messages)
           /\ frame'.service = 0
           /\ ctx'.messages = Tail(ctx.messages)
           /\ ctx'.sessions = ctx.sessions
    /\ (Polled /\ res'.tag = "Frame" /\ frame'.service # 0) =>
           /\ ctx.messages = <<>>
           /\ ctx'.messages = <<>>
    /\ (Polled /\ res'.tag # "Frame") => ctx'.messages = ctx.messages
    /\ ~Polled => ctx'.messages = ctx.messages \o Enqueued(ctx, ctx')
    /\ Delivered => Len(Enqueued(ctx, ctx')) <= 1

C19_QueueFifo == [][C19_Step]_vars

\* A reply is yielded ahead of the UPDATE enqueued after it and of a session
\* frame that was ready before the poll.
C19_Witness ==
    /\ op = "poll"
    /\ res.tag = "Frame"
    /\ frame.service = 0
    /\ frame.msg_type = CMSG_ACK
    /\ frame.msg_id \in ServerMsgIds
    /\ ctx.messages # <<>>
    /\ Head(ctx.messages).msg_type = CMSG_UPDATE
    /\ ctx.sessions.ready # <<>>

\* The message ids of the inbound requests: small, the server's, the largest.
RequestIds == {0, 65535} \cup ServerMsgIds

\* The engine after one reply was appended to the outbound queue of c.
WithReply(c, reply) == [c EXCEPT !.messages = Append(@, reply)]

\* What start_send makes of a request of a type code, in state c.
Request(c, code, id, sid, scanning) ==
    start_send(c, ControlFrame(code, id, "newhost:8900", sid), scanning)

\* C20: in every reachable state that is Established and not closed, each
\* request succeeds and changes the engine by exactly this: PING appends
\* ACK(msg_id, 0); GET_STATUS appends STATUS(msg_id, flags, sessions.len)
\* with the scan flag set iff a scan is in progress; GET_SCAN_REPORT appends
\* SCAN_REPORT(msg_id); HUP closes the session and appends nothing;
\* RESET_SVC_TABLE and SCAN_NETWORK append nothing and send one command.
\* No request adds a tracker entry or takes a message id of the engine's.
C20_Replies ==
    (ctx.state = Established /\ ~is_closed(ctx)) =>
        \A id \in RequestIds : \A sid \in SessionIds : \A scanning \in BOOLEAN :
            /\ Request(ctx, CMSG_PING, id, sid, scanning)
                   = Ok(WithReply(ctx, Msg(0, CMSG_ACK, id, <<ACK_NO_ERROR>>, "")))
            /\ Request(ctx, CMSG_GET_STATUS, id, sid, scanning)
                   = Ok(WithReply(ctx, Msg(0, CMSG_STATUS, id,
                           <<IF scanning THEN STATUS_FLAG_SCAN ELSE 0,
                             Cardinality(ctx.sessions.open)>>, "")))
            /\ Request(ctx, CMSG_GET_SCAN_REPORT, id, sid, scanning)
                   = Ok(WithReply(ctx, Msg(0, CMSG_SCAN_REPORT, id, <<>>, "")))
            /\ LET r == Request(ctx, CMSG_HUP, id, sid, scanning)
               IN  /\ r.res = OkRes
                   /\ sid \notin r.ctx.sessions.open
                   /\ [r.ctx EXCEPT !.sessions = ctx.sessions] = ctx
            /\ Request(ctx, CMSG_RESET_SVC_TABLE, id, sid, scanning)
                   = [ctx |-> ctx, res |-> [OkRes EXCEPT !.cmd = "ResetServiceTable"]]
            /\ Request(ctx, CMSG_SCAN_NETWORK, id, sid, scanning)
                   = [ctx |-> ctx, res |-> [OkRes EXCEPT !.cmd = "ScanNetwork"]]

\* A GET_STATUS was answered during a scan, with one session open.
C20_Witness ==
    /\ op = "start_send"
    /\ frame.service = 0
    /\ frame.msg_type = CMSG_GET_STATUS
    /\ res = OkRes
    /\ ctx.messages # <<>>
    /\ ctx.messages[Len(ctx.messages)]
           = Msg(0, CMSG_STATUS, frame.msg_id, <<STATUS_FLAG_SCAN, 1>>, "")

IsPing(m) == m.service = 0 /\ m.msg_type = CMSG_PING
IsUpdate(m) == m.service = 0 /\ m.msg_type = CMSG_UPDATE

\* C21: a tick enqueues at most one PING and at most one UPDATE. The tracker
\* after the tick is the tracker before it, followed by one entry for the
\* PING if there is one, stamped with the time of the tick: the UPDATE adds
\* none. last_ping moves to the time of the tick iff a PING was enqueued and
\* last_update_chck iff an UPDATE was. Construction leaves the one entry of
\* the REGISTER, and no other step lengthens the tracker. An UPDATE in the
\* queue has no tracker entry, so an ACK with its id is matched against the
\* head and fails like any ACK with an id that is not the head's.
C21_Step ==
    /\ op = "new" =>
           /\ Len(ctx.expected_acks) = 1
           /\ IsRegister(Head(ctx.messages))
           /\ HeadId(ctx) = Head(ctx.messages).msg_id
    /\ Ticked =>
           LET added        == Enqueued(ctx, ctx')
               sent_pings   == SelectSeq(added, IsPing)
               sent_updates == SelectSeq(added, IsUpdate)
           IN  /\ Len(sent_pings) <= 1
               /\ Len(sent_updates) <= 1
               /\ Len(added) = Len(sent_pings) + Len(sent_updates)
               /\ ctx'.expected_acks =
                      IF sent_pings # <<>>
                      THEN Append(ctx.expected_acks,
                                  ExpectedAck_new(sent_pings[1].msg_id, now'))
                      ELSE ctx.expected_acks
               /\ ctx'.last_ping = IF sent_pings # <<>> THEN now' ELSE ctx.last_ping
               /\ ctx'.last_update_chck =
                      IF sent_updates # <<>> THEN now' ELSE ctx.last_update_chck
    /\ ~Ticked => Len(ctx'.expected_acks) <= Len(ctx.expected_acks)
    /\ ~is_closed(ctx) =>
           \A i \in DOMAIN ctx.messages :
               IsUpdate(ctx.messages[i]) =>
                   LET id == ctx.messages[i].msg_id
                       r  == start_send(ctx, Msg(0, CMSG_ACK, id, <<ACK_NO_ERROR>>, ""),
                                        FALSE)
                   IN  /\ Tracked(ctx, id) = 0
                       /\ r.res = IF ctx.expected_acks = <<>>
                                  THEN ErrRes("Other", "no ACK message expected")
                                  ELSE ErrRes("Other", "unexpected ACK message ID")
                       /\ r.ctx.expected_acks =
                              IF ctx.expected_acks = <<>> THEN <<>>
                              ELSE Tail(ctx.expected_acks)

C21_FireAndForget == [][C21_Step]_vars

\* A tick has enqueued a PING and an UPDATE: the tracker holds the PING's
\* entry last, and both timers stand at the time of the tick.
C21_Witness ==
    /\ op = "time_event"
    /\ now > 0
    /\ ctx.last_ping = now
    /\ ctx.last_update_chck = now
    /\ Len(ctx.messages) >= 2
    /\ IsUpdate(ctx.messages[Len(ctx.messages)])
    /\ IsPing(ctx.messages[Len(ctx.messages) - 1])
    /\ ctx.expected_acks # <<>>
    /\ ctx.expected_acks[Len(ctx.expected_acks)]
           = ExpectedAck_new(ctx.messages[Len(ctx.messages) - 1].msg_id, now)

\* The tracker has an entry whose ACK timeout has passed at time t.
AnyExpired(c, t) ==
    \E i \in DOMAIN c.expected_acks : ExpectedAck_timeout(c.expected_acks[i], t)

\* C22: in every reachable state the enqueue times of the tracker, and so
\* the deadlines, do not decrease from head to tail, none lies in the
\* future, and the tracker has an entry that has timed out iff
\* ack_timeout, which reads the head only, says so.
C22_TrackerOrdered ==
    /\ \A i, j \in DOMAIN ctx.expected_acks :
           i <= j => ctx.expected_acks[i].timestamp <= ctx.expected_acks[j].timestamp
    /\ \A i \in DOMAIN ctx.expected_acks :
           /\ ctx.expected_acks[i].timestamp <= now
           /\ HeadDeadline(ctx) <= ctx.expected_acks[i].timestamp + ACK_TIMEOUT
    /\ AnyExpired(ctx, now) <=> ack_timeout(ctx, now)

\* Two PINGs are tracked: the first has timed out, the second has not.
C22_Witness ==
    /\ Len(ctx.expected_acks) >= 2
    /\ ack_timeout(ctx, now)
    /\ ~ExpectedAck_timeout(ctx.expected_acks[Len(ctx.expected_acks)], now)
    /\ ctx.expected_acks[1].timestamp < ctx.expected_acks[2].timestamp

\* The type codes of the messages that only the client sends.
OutboundOnlyCodes == {CMSG_REGISTER, CMSG_UPDATE, CMSG_STATUS, CMSG_SCAN_REPORT}

\* The type codes the protocol defines.
KnownCodes == CMSG_ACK .. CMSG_SCAN_REPORT

\* C23: a control message with a header whose type code is not defined, or
\* is the code of a message only the client sends, handed to an engine that
\* is not closed, in Handshake or Established, makes start_send fail (with
\* the decoder's error for the type) and the driver end with the error; the
\* engine is left as it was: no reply, no change of tracker, state or
\* redirect.
C23_Step ==
    (/\ Delivered
     /\ ~is_closed(ctx)
     /\ frame'.service = 0
     /\ frame'.hdr
     /\ frame'.msg_type \notin (KnownCodes \ OutboundOnlyCodes)) =>
        /\ res'.tag = "Err"
        /\ res'.msg = IF frame'.msg_type \in OutboundOnlyCodes
                      THEN "unexpected Arrow Control Protocol message type"
                      ELSE "unknown Arrow Control Protocol message type"
        /\ res'.cmd = OkRes.cmd
        /\ ctx' = ctx
        /\ driver' = Failed

C23_UnknownTypeFatal == [][C23_Step]_vars

\* A message of an undefined type was handed to an Established engine that
\* has a session open: the call failed.
C23_Witness ==
    /\ op = "start_send"
    /\ frame.service = 0
    /\ frame.msg_type \notin KnownCodes
    /\ ctx.state = Established
    /\ ~is_closed(ctx)
    /\ ctx.sessions.open # {}
    /\ res.tag = "Err"
    /\ driver = Failed

\* A frame that decodes and is handled according to the protocol state: a
\* well-formed control message of an inbound type other than ACK, or a
\* service frame.
StateChecked(f) ==
    \/ f.service # 0
    \/ /\ f.hdr
       /\ ControlMessage_from_bytes(f) = ""
       /\ ~IsAck(f)

\* C24: an engine that is in Handshake and not closed tracks the REGISTER
\* and nothing else. When a well-formed control message other than an ACK,
\* or a service frame, is handed to it, start_send fails, the driver ends
\* with the error, no command is sent, and the whole engine (protocol
\* state, redirect, outbound queue, tracker, sessions, id counter) is as
\* before the call.
C24_Step ==
    (/\ Delivered
     /\ ctx.state = Handshake
     /\ ~is_closed(ctx)
     /\ StateChecked(frame')) =>
        /\ res'.tag = "Err"
        /\ res'.cmd = OkRes.cmd
        /\ driver' = Failed
        /\ ctx' = ctx
        /\ Len(ctx'.expected_acks) = 1
        /\ HeadId(ctx') = FirstMsgId
        /\ ctx'.sessions = sessions_new

C24_HandshakeRejectionsPure == [][C24_Step]_vars

\* A SCAN_NETWORK was rejected in Handshake after the REGISTER had been
\* sent: its tracker entry is still there.
C24_Witness ==
    /\ op = "start_send"
    /\ frame.service = 0
    /\ frame.msg_type = CMSG_SCAN_NETWORK
    /\ ctx.state = Handshake
    /\ res.tag = "Err"
    /\ res.cmd = OkRes.cmd
    /\ driver = Failed
    /\ ctx.messages = <<>>
    /\ Len(ctx.expected_acks) = 1

\* The engine c with the head entry of its tracker removed.
HeadConsumed(c) == [c EXCEPT !.expected_acks = Tail(@)]

\* C25: an ACK that is processed (the engine is not closed) while the
\* tracker is not empty leaves a tracker that is the old one without its
\* head, whether start_send succeeds or fails. When the id does not match
\* the head's, the call fails with Other("unexpected ACK message ID") and
\* the removed entry is the only change to the engine; when a matching ACK
\* in Handshake carries a non-zero err, the call fails with the error of
\* that code and the removed REGISTER entry is the only change.
C25_Step ==
    (/\ Delivered
     /\ ~is_closed(ctx)
     /\ IsAck(frame')
     /\ ctx.expected_acks # <<>>) =>
        /\ ctx'.expected_acks = Tail(ctx.expected_acks)
        /\ Len(ctx'.expected_acks) = Len(ctx.expected_acks) - 1
        /\ frame'.msg_id # HeadId(ctx) =>
               /\ res' = ErrRes("Other", "unexpected ACK message ID")
               /\ ctx' = HeadConsumed(ctx)
        /\ (/\ frame'.msg_id = HeadId(ctx)
            /\ ctx.state = Handshake
            /\ AckErr(frame') # ACK_NO_ERROR) =>
               /\ res'.tag = "Err"
               /\ res'.kind = HandshakeAckKind(AckErr(frame'))
               /\ ctx' = HeadConsumed(ctx)
               /\ ctx'.expected_acks = <<>>
        /\ res'.tag = "Err" => driver' = Failed

C25_AckConsumesHead == [][C25_Step]_vars

\* With two PINGs outstanding an ACK with an id that is not tracked was
\* processed: it failed, and one entry is left.
C25_Witness ==
    /\ op = "start_send"
    /\ IsAck(frame)
    /\ frame.msg_id = 0
    /\ res = ErrRes("Other", "unexpected ACK message ID")
    /\ ctx.state = Established
    /\ Len(ctx.expected_acks) = 1
    /\ driver = Failed

\* Sequence s is an initial part of sequence t.
IsPrefix(s, t) == Len(s) <= Len(t) /\ SubSeq(t, 1, Len(s)) = s

\* C26: the step that sets redirect leaves the outbound queue as it was.
\* From then on the engine stays closed and Established; poll yields no
\* frame and removes none; start_send discards every frame, ACKs included;
\* the queue and the tracker only grow at the back: a tick after the PING
\* period appends a PING and its tracker entry, and a tick after the update
\* period appends an UPDATE.
C26_Step ==
    /\ (~is_closed(ctx) /\ is_closed(ctx')) =>
           /\ Delivered
           /\ ctx'.messages = ctx.messages
    /\ is_closed(ctx) =>
           /\ ctx.state = Established
           /\ ctx'.state = Established
           /\ ctx'.redirect = ctx.redirect
           /\ IsPrefix(ctx.messages, ctx'.messages)
           /\ IsPrefix(ctx.expected_acks, ctx'.expected_acks)
           /\ Polled =>
                  /\ res'.tag \in {"End", "Err"}
                  /\ frame' = NoFrame
                  /\ ctx' = ctx
           /\ Delivered =>
                  /\ res' = OkRes
                  /\ ctx' = ctx
           /\ (Ticked /\ (ctx.last_ping + PING_PERIOD) < now') =>
                  /\ Len(ctx'.expected_acks) = Len(ctx.expected_acks) + 1
                  /\ Len(SelectSeq(Enqueued(ctx, ctx'), IsPing)) = 1
           /\ (Ticked /\ (ctx.last_update_chck + UPDATE_CHECK_PERIOD) < now') =>
                  /\ Len(ctx'.messages) > Len(ctx.messages)
                  /\ IsUpdate(ctx'.messages[Len(ctx'.messages)])

C26_ClosedQueueStranded == [][C26_Step]_vars

\* A REDIRECT closed the engine while a PING was unacknowledged, and a later
\* tick has appended a second PING: two entries are tracked and the queue
\* holds frames that no poll will yield.
C26_Witness ==
    /\ op = "time_event"
    /\ ctx.redirect = Some("newhost:8900")
    /\ driver = Running
    /\ ctx.last_ping = now
    /\ Len(ctx.expected_acks) = 2
    /\ Len(ctx.messages) >= 2
    /\ IsPing(ctx.messages[Len(ctx.messages) - 1])
    /\ IsUpdate(ctx.messages[Len(ctx.messages)])

====
